---- MODULE Spec2Model ----
(***************************************************************************)
(* State-machine model of the SQL Lab query poller,                        *)
(* superset/assets/src/SqlLab/components/QueryAutoRefresh.jsx.             *)
(*                                                                         *)
(* One QueryAutoRefresh instance is modelled together with the parts of    *)
(* its environment it talks to: the browser's table of pending setTimeout  *)
(* callbacks, the GET requests that are in flight, the props it receives   *)
(* from the redux store and the wall clock read by Date().getTime().       *)
(* JavaScript runs every handler to completion, so each handler (and the   *)
(* re-renders it triggers synchronously) is one action.  The handlers of   *)
(* a request are separate promise reactions: the then- or catch-handler    *)
(* is one action, the finally-handler a later one, and other handlers may  *)
(* run between the two.                                                    *)
(***************************************************************************)
EXTENDS Integers, Sequences, FiniteSets, TLC

(* ------------------------------------------------------------------ *)
(* Program constants (QueryAutoRefresh.jsx lines 27-31).               *)
(* ------------------------------------------------------------------ *)
QUERY_UPDATE_FREQ == 500
QUERY_UPDATE_FREQ_MAX == 5000
QUERY_UPDATE_BUFFER_MS == 5000
MAX_QUERY_AGE_TO_POLL == 21600000
QUERY_TIMEOUT_LIMIT == 10000

(* ------------------------------------------------------------------ *)
(* Bounds of the model.                                                *)
(* ------------------------------------------------------------------ *)
\* Largest retry_count a settling request may carry: a request whose
\* retry_count has reached the bound stays in flight.
MaxRetry == 6

(* ------------------------------------------------------------------ *)
(* Input domains.                                                      *)
(* ------------------------------------------------------------------ *)
\* Keys of the queries object held by the store.
QueryIds == {"q1", "q2"}
\* The editor this instance is mounted for (props.queryEditorId) and
\* another editor of the same SQL Lab page.
queryEditorId == "ed1"
EditorIds == {"ed1", "ed2"}
\* The eight query states of the application, in two groups: the ones
\* listed at line 59 and the terminal ones.
RunningStates == {"running", "started", "pending", "fetching"}
TerminalStates == {"success", "failed", "stopped", "timed_out"}
QueryStates == RunningStates \cup TerminalStates
\* Start times and clock readings (ms) placed around the age ceiling:
\* now - startDttm takes values below, at and above MAX_QUERY_AGE_TO_POLL.
StartValues == {0, 1}
NowValues == {MAX_QUERY_AGE_TO_POLL - 1, MAX_QUERY_AGE_TO_POLL,
              MAX_QUERY_AGE_TO_POLL + 1}
\* Values of sqlLab.queriesLastUpdate.
LastUpdateValues == {20000, 20001}

\* All query records and query sets over these domains: the inputs of the
\* specification of the active-query predicate (PredSpec).
QueryRecords ==
  [sqlEditorId : EditorIds, state : QueryStates, startDttm : StartValues]
QuerySets == UNION {[D -> QueryRecords] : D \in SUBSET QueryIds}

\* The records the poller's state machine (Spec) is run on: one state of
\* each group, started at 0, read at a clock just below or at the ceiling.
MachineStates == {"running", "success"}
MachineRecords ==
  [sqlEditorId : EditorIds, state : MachineStates, startDttm : {0}]
MachineQuerySets == UNION {[D -> MachineRecords] : D \in SUBSET QueryIds}
MachineNowValues == {MAX_QUERY_AGE_TO_POLL - 1, MAX_QUERY_AGE_TO_POLL}
\* A response body: {} or an update of one query.
Payloads ==
  UNION {[D -> MachineRecords] : D \in {{}} \cup {{i} : i \in QueryIds}}
\* The ways a request fails: rejected by the network, or by the client's
\* timeout.
Failures == {"error", "timeout"}

NoTimer == 0

VARIABLES
  phase,             \* "constructed", "mounted" or "unmounted"
  offline,           \* this.state.offline
  propsOffline,      \* this.props.offline
  queries,           \* this.props.queries
  queriesLastUpdate, \* this.props.queriesLastUpdate
  timer,             \* this.timer: NoTimer or the id setTimeout returned
  timeouts,          \* callbacks scheduled with setTimeout and not yet run
  requests,          \* GET requests issued and not yet settled
  reactions,         \* finally-handlers of settled requests, not yet run
  now,               \* the clock
  last,              \* what the last step did (observation only)
  seen               \* what has happened so far (observation only)

vars == <<phase, offline, propsOffline, queries, queriesLastUpdate, timer,
          timeouts, requests, reactions, now, last, seen>>

(* ------------------------------------------------------------------ *)
(* The component, as operators on a record w of the program state      *)
(* (the fields are the variables above except the observations, plus   *)
(* dispatched: the store actions dispatched so far in this step).      *)
(* ------------------------------------------------------------------ *)

\* Object.values(queries)
ObjectValues(qs) == {qs[i] : i \in DOMAIN qs}

\* isQueryRunning, line 58-60: indexOf(q.state) >= 0 in the listed array.
RunningList == <<"running", "started", "pending", "fetching">>
IndexOf(list, x) ==
  IF \E i \in 1..Len(list) : list[i] = x
    THEN (CHOOSE i \in 1..Len(list) :
            list[i] = x /\ \A j \in 1..(i - 1) : list[j] # x) - 1
    ELSE -1
isQueryRunning(q) == IndexOf(RunningList, q.state) >= 0

\* shouldCheckForQueries without the filter on sqlEditorId.
shouldCheckAnyEditor(w) ==
  \E q \in ObjectValues(w.queries) :
     isQueryRunning(q) /\ w.now - q.startDttm < MAX_QUERY_AGE_TO_POLL

\* shouldCheckForQueries with the age ceiling included (<= for <).
shouldCheckInclusiveAge(w) ==
  \E q \in {x \in ObjectValues(w.queries) : x.sqlEditorId = queryEditorId} :
     isQueryRunning(q) /\ w.now - q.startDttm <= MAX_QUERY_AGE_TO_POLL

\* shouldCheckForQueries without the age ceiling.
shouldCheckAnyAge(w) ==
  \E q \in {x \in ObjectValues(w.queries) : x.sqlEditorId = queryEditorId} :
     isQueryRunning(q)

\* shouldCheckForQueries, lines 54-72.
shouldCheckForQueries(w) ==
  LET editorQueries ==
        {q \in ObjectValues(w.queries) : q.sqlEditorId = queryEditorId}
  IN \E q \in editorQueries :
        isQueryRunning(q) /\ w.now - q.startDttm < MAX_QUERY_AGE_TO_POLL

\* setTimeout returns an id no live timer has; the model takes the least
\* id that is neither pending, nor held in this.timer, nor the id of the
\* callback that issued a request still in flight.
FreshId(w) ==
  LET used == {w.timer} \cup {t.id : t \in w.timeouts}
                        \cup {r.id : r \in w.requests}
  IN CHOOSE i \in 1..(Cardinality(used) + 1) : i \notin used

\* Math.min
Min(a, b) == IF a < b THEN a ELSE b

\* The delay computed (and logged) at line 83.
ComputedDelay(retry_count) ==
  Min(QUERY_UPDATE_FREQ + retry_count * 50, QUERY_UPDATE_FREQ_MAX)

\* this.timer = setTimeout(this.stopwatch.bind(this, retry_count), ms),
\* line 85: a callback bound to retry_count is scheduled after ms and its
\* id is kept in this.timer.
SetTimeout(w, retry_count, ms) ==
  LET id == FreshId(w)
  IN [w EXCEPT !.timer = id,
               !.timeouts = @ \cup {[id |-> id,
                                     retry_count |-> retry_count,
                                     delay |-> ms]}]

\* startTimer without the test of this.timer.
startTimerNoGuard(w, retry_count) ==
  SetTimeout(w, retry_count, QUERY_UPDATE_FREQ)

\* startTimer arming the timeout with the delay it computed.
startTimerComputedDelay(w, retry_count) ==
  IF w.timer = NoTimer
    THEN SetTimeout(w, retry_count, ComputedDelay(retry_count))
    ELSE w

\* startTimer cancelling a pending callback and arming a new one.
startTimerRearms(w, retry_count) ==
  SetTimeout([w EXCEPT !.timeouts = {t \in @ : t.id # w.timer},
                       !.timer = NoTimer],
             retry_count, QUERY_UPDATE_FREQ)

\* startTimer, lines 73-87.  The delay of line 83 is only logged; the
\* timeout is armed with QUERY_UPDATE_FREQ.
startTimer(w, retry_count) ==
  IF w.timer = NoTimer
    THEN SetTimeout(w, retry_count, QUERY_UPDATE_FREQ)
    ELSE w

\* stopTimer forgetting the handle without clearTimeout.
stopTimerNoClear(w) == [w EXCEPT !.timer = NoTimer]

\* stopTimer, lines 88-92.
stopTimer(w) ==
  [w EXCEPT !.timeouts = {t \in @ : t.id # w.timer}, !.timer = NoTimer]

\* componentDidUpdate starting the timer without looking at the queries.
componentDidUpdateUnguarded(w, prevOffline) ==
  startTimer(IF prevOffline # w.offline
               THEN [w EXCEPT
                       !.dispatched =
                          Append(@, [type |-> "setUserOffline",
                                     arg |-> w.offline]),
                       !.propsOffline = w.offline]
               ELSE w, 0)

\* componentDidUpdate without the call of startTimer.
componentDidUpdateNoRestart(w, prevOffline) ==
  IF prevOffline # w.offline
    THEN [w EXCEPT
            !.dispatched =
               Append(@, [type |-> "setUserOffline", arg |-> w.offline]),
            !.propsOffline = w.offline]
    ELSE w

\* One call of componentDidUpdate(prevProps), lines 44-50.  The store
\* handles setUserOffline by storing the flag, which reaches the mounted
\* component as props.offline.
componentDidUpdate(w, prevOffline) ==
  LET w1 == IF prevOffline # w.offline
              THEN [w EXCEPT
                      !.dispatched =
                         Append(@, [type |-> "setUserOffline",
                                    arg |-> w.offline]),
                      !.propsOffline = w.offline]
              ELSE w
  IN IF shouldCheckForQueries(w1) THEN startTimer(w1, 0) ELSE w1

\* A re-render and the re-renders that follow from it: when
\* componentDidUpdate changed props.offline through the store, the
\* component updates again, with the props before that change as prevProps.
RECURSIVE Update(_, _)
Update(w, prevOffline) ==
  LET w1 == componentDidUpdate(w, prevOffline)
  IN IF w1.propsOffline # w.propsOffline
       THEN Update(w1, w.propsOffline)
       ELSE w1

\* this.setState({ offline: v }): nothing happens on an unmounted
\* component; a PureComponent re-renders only when the state changed.
setState(w, v) ==
  IF w.phase # "mounted" \/ w.offline = v
    THEN w
    ELSE Update([w EXCEPT !.offline = v], w.propsOffline)

\* The store merging a refreshQueries payload by query id.
MergeQueries(qs, json) ==
  [i \in DOMAIN qs \cup DOMAIN json |->
     IF i \in DOMAIN json THEN json[i] ELSE qs[i]]

\* this.props.actions.refreshQueries(json), line 104: the action is
\* dispatched; a mounted component receives the merged queries as props.
refreshQueries(w, json) ==
  LET w1 == [w EXCEPT !.dispatched =
                         Append(@, [type |-> "refreshQueries", arg |-> json])]
  IN IF w.phase = "mounted" /\ MergeQueries(w.queries, json) # w.queries
       THEN Update([w1 EXCEPT !.queries = MergeQueries(w.queries, json)],
                   w1.propsOffline)
       ELSE w1

\* SupersetClient.get asking for the changes since queriesLastUpdate
\* itself, without the buffer.
SupersetClientGetNoBuffer(w, t) ==
  [w EXCEPT !.requests =
              @ \cup {[id |-> t.id,
                       retry_count |-> t.retry_count,
                       since |-> w.queriesLastUpdate,
                       timeout |-> QUERY_TIMEOUT_LIMIT]}]

\* SupersetClient.get, lines 98-101: a GET of /superset/queries/<since>
\* is in flight; its handlers are bound to retry_count.
SupersetClientGet(w, t) ==
  [w EXCEPT !.requests =
              @ \cup {[id |-> t.id,
                       retry_count |-> t.retry_count,
                       since |-> w.queriesLastUpdate - QUERY_UPDATE_BUFFER_MS,
                       timeout |-> QUERY_TIMEOUT_LIMIT]}]

\* stopwatch releasing this.timer as soon as the callback runs.
stopwatchReleasesTimer(w, t) ==
  IF shouldCheckForQueries(w)
    THEN SupersetClientGet(stopTimer(w), t)
    ELSE setState(stopTimer(w), FALSE)

\* stopwatch issuing the request without looking at the queries.
stopwatchNoRecheck(w, t) == SupersetClientGet(w, t)

\* stopwatch dropping the editor's queries from props.queries itself
\* when it finds none of them active.
stopwatchPrunesQueries(w, t) ==
  IF shouldCheckForQueries(w)
    THEN SupersetClientGet(w, t)
    ELSE setState(stopTimer(
           [w EXCEPT !.queries =
              [i \in {j \in DOMAIN @ : @[j].sqlEditorId # queryEditorId}
                 |-> @[i]]]), FALSE)

\* stopwatch going idle without setState({ offline: false }).
stopwatchIdleKeepsFlag(w, t) ==
  IF shouldCheckForQueries(w)
    THEN SupersetClientGet(w, t)
    ELSE stopTimer(w)

\* stopwatch(retry_count), lines 93-117, up to the point where the
\* request has been issued.  this.timer keeps the id of the timeout that
\* has just run until the request settles.
stopwatch(w, t) ==
  IF shouldCheckForQueries(w)
    THEN SupersetClientGet(w, t)
    ELSE setState(stopTimer(w), FALSE)

\* The then-handler forwarding only the queries of its own editor.
onResolvedOwnEditorOnly(w, json) ==
  LET own == [i \in {j \in DOMAIN json : json[j].sqlEditorId = queryEditorId}
                |-> json[i]]
      w1 == IF Cardinality(DOMAIN own) > 0 THEN refreshQueries(w, own) ELSE w
  IN setState(w1, FALSE)

\* The then-handler without setState({ offline: false }).
onResolvedKeepsOffline(w, json) ==
  IF Cardinality(DOMAIN json) > 0 THEN refreshQueries(w, json) ELSE w

\* The then-handler forwarding empty bodies too (>= 0 for > 0).
onResolvedAlwaysRefreshes(w, json) ==
  setState(refreshQueries(w, json), FALSE)

\* The then-handler, lines 101-106.
onResolved(w, json) ==
  LET w1 == IF Cardinality(DOMAIN json) > 0 THEN refreshQueries(w, json) ELSE w
  IN setState(w1, FALSE)

\* The catch-handler, lines 107-108.
onRejected(w) == setState(w, TRUE)

\* A then-handler that takes a body without keys for an empty result.
onMalformedAsEmpty(w) == setState(w, FALSE)

\* The handlers for a body that is null: Object.keys(json) at line 103
\* throws before refreshQueries and setState are reached, and the
\* catch-handler, lines 107-108, runs.
onMalformed(w) == onRejected(w)

\* The finally-handler passing retry_count on as it is (retry_count++).
onFinallyNoIncrement(w, retry_count) == startTimer(stopTimer(w), retry_count)

\* The finally-handler scheduling the next callback only after a success.
onFinallyGivesUp(w, retry_count) ==
  IF w.offline THEN stopTimer(w) ELSE startTimer(stopTimer(w), retry_count + 1)

\* The finally-handler, lines 109-112.
onFinally(w, retry_count) == startTimer(stopTimer(w), retry_count + 1)

(* ------------------------------------------------------------------ *)
(* Observations.                                                       *)
(* ------------------------------------------------------------------ *)
\* Some query of this instance's editor is active: stated on the query
\* set, independently of the component's code.
SessionActive(qs, t) ==
  \E i \in DOMAIN qs :
     /\ qs[i].sqlEditorId = queryEditorId
     /\ qs[i].state \in RunningStates
     /\ t - qs[i].startDttm < 21600000

World ==
  [phase |-> phase, offline |-> offline, propsOffline |-> propsOffline,
   queries |-> queries, queriesLastUpdate |-> queriesLastUpdate,
   timer |-> timer, timeouts |-> timeouts, requests |-> requests,
   reactions |-> reactions, now |-> now, dispatched |-> <<>>]

\* The body of a step that received no response body.
NoBody == [i \in {} |-> 0]

\* The step from the current state to world: the program state becomes
\* world and the observations record what the step did; body is the
\* response body a resolving request delivered (its own enumerable
\* properties) and shape the kind of JSON value it is.
ObservedAs(world, op, outcome, body, shape) ==
  \E w \in {world} :
     /\ phase' = w.phase
     /\ offline' = w.offline
     /\ propsOffline' = w.propsOffline
     /\ queries' = w.queries
     /\ queriesLastUpdate' = w.queriesLastUpdate
     /\ timer' = w.timer
     /\ timeouts' = w.timeouts
     /\ requests' = w.requests
     /\ reactions' = w.reactions
     /\ now' = w.now
     /\ last' = [op |-> op,
                 outcome |-> outcome,
                 body |-> body,
                 shape |-> shape,
                 dispatched |-> w.dispatched,
                 scheduled |-> w.timeouts \ timeouts,
                 issued |-> w.requests \ requests,
                 failuresBefore |-> IF op = "finally" THEN seen.before
                                                      ELSE seen.failures]
     /\ seen' = [seen EXCEPT
                   !.failures =
                      IF op = "settle"
                        THEN (IF outcome = "success" THEN 0
                                                     ELSE Min(@ + 1, MaxRetry))
                        ELSE IF op \in {"mount", "update"}
                                  /\ w.timeouts \ timeouts # {}
                               THEN 0 ELSE @,
                   !.before = IF op = "settle" THEN seen.failures
                                 ELSE IF op = "finally" THEN 0 ELSE @,
                   !.settled =
                      IF op = "settle" THEN Min(@ + 1, MaxRetry)
                        ELSE IF op \in {"mount", "update"}
                                  /\ w.timeouts \ timeouts # {}
                               THEN 0 ELSE @,
                   !.active = @ \/ SessionActive(w.queries, w.now),
                   !.timer = @ \/ (w.timeouts \ timeouts # {}),
                   !.get = @ \/ (w.requests \ requests # {}),
                   !.unmountedWith =
                      IF op = "unmount"
                        THEN (IF requests # {} THEN "request"
                              ELSE IF reactions # {} THEN "reaction"
                              ELSE IF timeouts # {} THEN "timeout" ELSE "idle")
                        ELSE @]

\* The step of a handler that received a JSON object, null, or no body.
Observed(world, op, outcome, body) ==
  ObservedAs(world, op, outcome, body,
             IF op = "settle" /\ outcome = "success" THEN "object"
               ELSE IF op = "settle" /\ outcome = "malformed" THEN "null"
               ELSE "")

Becomes(w, op, outcome) == Observed(w, op, outcome, NoBody)

(* ------------------------------------------------------------------ *)
(* Initial states: the instance has been constructed (lines 34-39).    *)
(* ------------------------------------------------------------------ *)
Constructed(qss, nows) ==
  /\ phase = "constructed"
  /\ propsOffline \in BOOLEAN
  /\ offline = propsOffline
  /\ queries \in qss
  /\ queriesLastUpdate \in LastUpdateValues
  /\ timer = NoTimer
  /\ timeouts = {}
  /\ requests = {}
  /\ reactions = {}
  /\ now \in nows
  /\ last = [op |-> "constructor", outcome |-> "", body |-> NoBody,
             shape |-> "",
             dispatched |-> <<>>,
             scheduled |-> {}, issued |-> {}, failuresBefore |-> 0]
  /\ seen = [active |-> FALSE, timer |-> FALSE, get |-> FALSE,
             unmountedWith |-> "", failures |-> 0, before |-> 0,
             settled |-> 0]

Init == Constructed(MachineQuerySets, MachineNowValues)

(* ------------------------------------------------------------------ *)
(* Actions.                                                            *)
(* ------------------------------------------------------------------ *)
\* componentWillMount starting the timer without looking at the queries.
componentWillMountUnguarded ==
  /\ phase = "constructed"
  /\ Becomes(startTimer([World EXCEPT !.phase = "mounted"], 0), "mount", "")

\* componentWillMount, lines 40-43.
componentWillMount ==
  /\ phase = "constructed"
  /\ LET w == [World EXCEPT !.phase = "mounted"]
     IN Becomes(IF shouldCheckForQueries(w) THEN startTimer(w, 0) ELSE w,
                "mount", "")

\* The store's queries or queriesLastUpdate change (one query is added,
\* replaced or removed at a time); the mounted component re-renders with
\* the new props and componentDidUpdate runs.
WithQuery(qs, i, rec) ==
  [j \in DOMAIN qs \cup {i} |-> IF j = i THEN rec ELSE qs[j]]
WithoutQuery(qs, i) == [j \in DOMAIN qs \ {i} |-> qs[j]]
PropsChanged(qs, lu) ==
  /\ phase = "mounted"
  /\ <<qs, lu>> # <<queries, queriesLastUpdate>>
  /\ Becomes(Update([World EXCEPT !.queries = qs,
                                   !.queriesLastUpdate = lu],
                    propsOffline),
             "update", "")
QuerySetChangedOver(ids, lus) ==
  \E i \in ids, lu \in lus :
     \/ \E rec \in MachineRecords : PropsChanged(WithQuery(queries, i, rec), lu)
     \/ PropsChanged(WithoutQuery(queries, i), lu)
QuerySetChanged == QuerySetChangedOver(QueryIds, LastUpdateValues)

\* A scheduled callback runs: stopwatch(retry_count).
TimerFires ==
  \E t \in timeouts :
     Becomes(stopwatch([World EXCEPT !.timeouts = @ \ {t}], t), "fire", "")

\* The promise of request r settles: r is no longer in flight, the
\* then- or catch-handler runs now and the finally-handler, bound to
\* retry_count, is left to run.
Settling(w, r, outcome, retry_count) ==
  [w EXCEPT !.requests = @ \ {r},
            !.reactions = @ \cup {[id |-> r.id, retry_count |-> retry_count,
                                   outcome |-> outcome]}]

\* A request resolves with a body: the then-handler runs.
RequestResolvesWith(bodies) ==
  \E r \in requests, json \in bodies :
     /\ r.retry_count < MaxRetry
     /\ Observed(onResolved(Settling(World, r, "success", r.retry_count),
                            json),
                 "settle", "success", json)

RequestResolves == RequestResolvesWith(Payloads)

\* A request is rejected (network error or timeout): the catch-handler
\* runs.
RequestRejects ==
  \E r \in requests, f \in Failures :
     /\ r.retry_count < MaxRetry
     /\ Becomes(onRejected(Settling(World, r, f, r.retry_count)),
                "settle", f)

\* A request resolves with the body null: the then-handler throws and
\* the catch-handler runs.
RequestResolvesMalformed ==
  \E r \in requests :
     /\ r.retry_count < MaxRetry
     /\ Becomes(onMalformed(Settling(World, r, "malformed", r.retry_count)),
                "settle", "malformed")

\* Response bodies that are JSON values but not objects, each with the
\* own enumerable properties Object.keys(json) finds at line 103: none
\* for a number, a boolean, the string "" and the array [], the index
\* "0" for an array of one element (a string with characters has its
\* indices in the same way).
ArrayElement == [sqlEditorId |-> "ed2", state |-> "success", startDttm |-> 0]
NonObjectBodies ==
  {[shape |-> k, props |-> NoBody] :
     k \in {"number", "boolean", "string", "array"}}
    \cup {[shape |-> "array", props |-> [i \in {"0"} |-> ArrayElement]]}

\* A request resolves with such a body: Object.keys(json) does not
\* throw, and the then-handler runs as it does for an object.
RequestResolvesNonObject ==
  \E r \in requests, b \in NonObjectBodies :
     /\ r.retry_count < MaxRetry
     /\ ObservedAs(onResolved(Settling(World, r, "success", r.retry_count),
                              b.props),
                   "settle", "success", b.props, b.shape)

\* The finally-handler of a settled request runs.
RequestFinally ==
  \E c \in reactions :
     Becomes(onFinally([World EXCEPT !.reactions = @ \ {c}], c.retry_count),
             "finally", c.outcome)

\* componentWillUnmount, lines 51-53.
componentWillUnmount ==
  /\ phase = "mounted"
  /\ Becomes(stopTimer([World EXCEPT !.phase = "unmounted"]), "unmount", "")

\* Time passes.
Tick ==
  /\ \E t \in MachineNowValues :
        /\ t > now
        /\ Becomes([World EXCEPT !.now = t], "tick", "")

Next ==
  \/ componentWillMount
  \/ QuerySetChanged
  \/ TimerFires
  \/ RequestResolves
  \/ RequestRejects
  \/ RequestResolvesMalformed
  \/ RequestResolvesNonObject
  \/ RequestFinally
  \/ componentWillUnmount
  \/ Tick

Spec == Init /\ [][Next]_vars

\* The active-query predicate on all inputs: the instance is constructed
\* over every query set and clock reading of the full domains, and mounted.
PredInit == Constructed(QuerySets, NowValues)
PredNext == componentWillMount
PredSpec == PredInit /\ [][PredNext]_vars

\* The poller in a browser that keeps running its event loop: a scheduled
\* callback that stays pending is eventually run, and so is the
\* finally-handler of a settled request.  The store holds one
\* query, of this editor or of the other one, and queriesLastUpdate stays.
LiveQueryIds == {"q1"}
LiveInit ==
  /\ Constructed(MachineQuerySets, MachineNowValues)
  /\ DOMAIN queries \subseteq LiveQueryIds
  /\ queriesLastUpdate = 20000
LiveQuerySetChanged == QuerySetChangedOver(LiveQueryIds, {20000})
LiveRequestResolves ==
  RequestResolvesWith({b \in Payloads : DOMAIN b \subseteq LiveQueryIds})
LiveNext ==
  \/ componentWillMount
  \/ LiveQuerySetChanged
  \/ TimerFires
  \/ LiveRequestResolves
  \/ RequestRejects
  \/ RequestResolvesMalformed
  \/ RequestFinally
  \/ componentWillUnmount
  \/ Tick
LiveSpec ==
  /\ LiveInit
  /\ [][LiveNext]_vars
  /\ WF_vars(TimerFires)
  /\ WF_vars(RequestFinally)

\* The poller left running for as long as it takes.  A request left
\* unanswered is rejected (it carries a timeout), a pending callback is
\* run, and the clock advances (callbacks are 500 ms apart).  retry_count
\* is logged and never read, so the counts from MaxRetry on are all
\* represented by MaxRetry.
Represented(retry_count) == Min(retry_count, MaxRetry - 1)
QuiesceResolves ==
  \E r \in requests, json \in {b \in Payloads : DOMAIN b \subseteq LiveQueryIds} :
     Observed(onResolved(Settling(World, r, "success",
                                  Represented(r.retry_count)), json),
              "settle", "success", json)
QuiesceRejects ==
  \E r \in requests, f \in Failures :
     Becomes(onRejected(Settling(World, r, f, Represented(r.retry_count))),
             "settle", f)
QuiesceMalformed ==
  \E r \in requests :
     Becomes(onMalformed(Settling(World, r, "malformed",
                                  Represented(r.retry_count))),
             "settle", "malformed")
QuiesceNext ==
  \/ componentWillMount
  \/ LiveQuerySetChanged
  \/ TimerFires
  \/ QuiesceResolves
  \/ QuiesceRejects
  \/ QuiesceMalformed
  \/ RequestFinally
  \/ componentWillUnmount
  \/ Tick
QuiesceSpec ==
  /\ LiveInit
  /\ [][QuiesceNext]_vars
  /\ WF_vars(TimerFires)
  /\ WF_vars(QuiesceRejects)
  /\ WF_vars(RequestFinally)
  /\ WF_vars(Tick)

(* ------------------------------------------------------------------ *)
(* Claims.                                                             *)
(* ------------------------------------------------------------------ *)

\* C1 (single-flight): whatever the interleaving of query-set changes,
\* timer firings and settlements, no GET is issued while an earlier GET
\* has not settled: at most one request is ever in flight, and a step
\* that issues a GET leaves it the only one.
C1_SingleFlight ==
  /\ Cardinality(requests) <= 1
  /\ last.issued # {} => requests = last.issued
\* A query-set change has just been handled while a request is in flight.
C1_Witness ==
  /\ phase = "mounted"
  /\ last.op = "update"
  /\ requests # {}
  /\ shouldCheckForQueries(World)

\* C2 (clean teardown of store writes), as claimed: no step taken after
\* componentWillUnmount dispatches refreshQueries or setUserOffline.
C2_NoStoreWriteAfterUnmount ==
  phase = "unmounted" => last.dispatched = <<>>

\* C3 (late responses do not reschedule), as claimed: in every state
\* after unmount this.timer is empty and no callback is pending.
C3_NoTimerAfterUnmount ==
  phase = "unmounted" => timer = NoTimer /\ timeouts = {}

\* C4 (strictly sequential cycles): at most one callback is pending, a
\* pending callback never coexists with an outstanding request (in
\* flight, or settled with its finally-handler still to run), and a
\* callback is scheduled only in a state without an outstanding request.
C4_SequentialCycles ==
  /\ Cardinality(timeouts) <= 1
  /\ timeouts = {} \/ (requests = {} /\ reactions = {})
  /\ last.scheduled # {} => (requests = {} /\ reactions = {})
\* The settlement of a request has scheduled the callback of a later cycle.
C4_Witness ==
  /\ last.op = "finally"
  /\ \E t \in last.scheduled : t.retry_count >= 2
  /\ requests = {}

\* C5 (linear capped backoff), as claimed: a callback scheduled after N
\* consecutive failed polls has delay min(500 + 50 * N, 5000).
C5_BackoffDelay ==
  \A t \in last.scheduled :
     t.delay = (IF 500 + 50 * seen.failures < 5000
                  THEN 500 + 50 * seen.failures ELSE 5000)

\* C6 (reset on success), as claimed: the callback scheduled when a
\* request resolved without error carries retry count 0.
C6_ResetOnSuccess ==
  last.op = "finally" /\ last.outcome = "success"
    => \A t \in last.scheduled : t.retry_count = 0

\* C7: a callback scheduled when a request has resolved successfully has
\* a delay of exactly 500 ms, whatever number of failures preceded it.
C7_DelayAfterSuccess ==
  last.op = "finally" /\ last.outcome = "success"
    => \A t \in last.scheduled : t.delay = 500
\* A success that follows two failures has scheduled the next callback.
C7_Witness ==
  /\ last.op = "finally"
  /\ last.outcome = "success"
  /\ last.failuresBefore >= 2
  /\ last.scheduled # {}

\* C8 (idle when inactive): as long as no query of the instance's editor
\* has been active since mount, no timer has been created and no GET has
\* been issued, also when queries of other editors are active.
C8_IdleWhenInactive ==
  ~seen.active =>
     /\ ~seen.timer /\ ~seen.get
     /\ timer = NoTimer /\ timeouts = {} /\ requests = {} /\ reactions = {}
\* A query-set change has left an active query of another editor only.
C8_Witness ==
  /\ phase = "mounted"
  /\ last.op = "update"
  /\ ~seen.active
  /\ \E i \in DOMAIN queries :
        /\ queries[i].sqlEditorId # queryEditorId
        /\ queries[i].state \in RunningStates
        /\ now - queries[i].startDttm < 21600000

\* C9: shouldCheckForQueries is true exactly when some query of the
\* instance's editor is in state running, started, pending or fetching
\* and younger than 21600000 ms; it is false when every query of the
\* editor is 6 hours old or older or in state success, failed, stopped or
\* timed_out.  Mount starts the timer on exactly that condition.
C9_ActivePredicate ==
  LET mine == {i \in DOMAIN queries : queries[i].sqlEditorId = queryEditorId}
      claimed ==
        \E i \in mine :
           /\ queries[i].state \in {"running", "started", "pending", "fetching"}
           /\ now - queries[i].startDttm < 21600000
  IN /\ shouldCheckForQueries(World) <=> claimed
     /\ (\A i \in mine :
            \/ now - queries[i].startDttm >= 21600000
            \/ queries[i].state \in {"success", "failed", "stopped", "timed_out"})
          => ~shouldCheckForQueries(World)
     /\ phase = "mounted" => (timer # NoTimer <=> claimed)
\* Mounted over a running query of the editor that is exactly 6 hours old
\* together with an active query of another editor: no timer.
C9_Witness ==
  /\ phase = "mounted"
  /\ timer = NoTimer
  /\ \E i \in DOMAIN queries :
        /\ queries[i].sqlEditorId = queryEditorId
        /\ queries[i].state = "running"
        /\ now - queries[i].startDttm = 21600000
  /\ \E i \in DOMAIN queries :
        /\ queries[i].sqlEditorId # queryEditorId
        /\ queries[i].state = "fetching"
        /\ now - queries[i].startDttm < 21600000

\* C10 (unmount cancels a pending timer): after componentWillUnmount ran
\* with a callback pending and no request in flight, that callback never
\* runs, no GET is issued and no store action is dispatched.
C10_UnmountCancelsTimer ==
  seen.unmountedWith = "timeout" =>
     /\ timeouts = {} /\ requests = {} /\ reactions = {}
     /\ last.op \notin {"fire", "settle", "finally"}
     /\ last.issued = {} /\ last.dispatched = <<>>
\* The unmount has just happened in that situation.
C10_Witness ==
  /\ seen.unmountedWith = "timeout"
  /\ last.op = "unmount"
  /\ phase = "unmounted"

\* C11 (a query-set change is idempotent on timers): a componentDidUpdate
\* that runs while a callback is pending creates no callback and neither
\* cancels nor re-arms the pending one: this.timer, the pending callbacks
\* and the requests in flight are the same after it, so any number of such
\* calls leaves what one call leaves.
C11_UpdateKeepsPendingTimer ==
  [][(timeouts # {} /\ last'.op = "update")
       => /\ timeouts' = timeouts /\ timer' = timer
          /\ requests' = requests /\ reactions' = reactions]_vars
\* A query-set change has been handled while the callback scheduled by a
\* settlement was pending.
C11_Witness ==
  /\ phase = "mounted"
  /\ last.op = "update"
  /\ last.scheduled = {}
  /\ \E t \in timeouts : t.retry_count >= 1 /\ timer = t.id

\* C12 (failures are never fatal): a request of the mounted instance that
\* failed or timed out is followed by another request, unless the instance
\* is unmounted or no query of its editor is active any more.
C12_FailureIsRetried ==
  (phase = "mounted" /\ last.op = "settle" /\ last.outcome \in Failures)
    ~> (requests # {} \/ phase # "mounted" \/ ~SessionActive(queries, now))
\* A request has been issued after two failures in a row.
C12_Witness ==
  /\ phase = "mounted"
  /\ last.op = "fire"
  /\ last.issued # {}
  /\ seen.failures >= 2

\* C13 (polling goes idle): when a response has been merged and no query
\* of the editor is active, the instance reaches a state without pending
\* callback and without outstanding request unless the query set changes
\* again; and from such a state a callback is created only by a query-set
\* change, and no GET is issued without one.
C13_GoesIdle ==
  /\ (phase = "mounted" /\ last.op = "settle" /\ last.outcome = "success"
        /\ ~SessionActive(queries, now))
       ~> ((timeouts = {} /\ requests = {} /\ reactions = {})
             \/ last.op = "update")
  /\ [][(timeouts = {} /\ requests = {} /\ reactions = {}
            /\ phase # "constructed")
          => /\ requests' = {} /\ reactions' = {}
             /\ timeouts' # {} => last'.op = "update"]_vars
\* The response that ended the editor's last active query has been merged.
C13_Witness ==
  /\ phase = "mounted"
  /\ last.op = "settle"
  /\ last.outcome = "success"
  /\ \E i \in DOMAIN last.body :
        /\ last.body[i].state = "success"
        /\ queries[i] = last.body[i]
  /\ ~SessionActive(queries, now)
  /\ Len(last.dispatched) >= 1

\* The refreshQueries actions among the store actions a step dispatched.
RefreshCalls(ds) == SelectSeq(ds, LAMBDA d : d.type = "refreshQueries")

\* C14: a request that resolves with a non-empty JSON object makes
\* exactly one refreshQueries call, whose argument is the whole body as
\* received; no step makes more than one refreshQueries call.
C14_RefreshOnceWithPayload ==
  /\ Len(RefreshCalls(last.dispatched)) <= 1
  /\ (last.op = "settle" /\ last.outcome = "success" /\ DOMAIN last.body # {})
       => /\ Len(RefreshCalls(last.dispatched)) = 1
          /\ RefreshCalls(last.dispatched)[1].arg = last.body
\* A body updating a query of another editor has been forwarded, after a
\* failure (so that setUserOffline is dispatched in the same step).
C14_Witness ==
  /\ last.op = "settle"
  /\ last.outcome = "success"
  /\ \E i \in DOMAIN last.body : last.body[i].sqlEditorId # queryEditorId
  /\ Len(last.dispatched) >= 2
  /\ Len(RefreshCalls(last.dispatched)) = 1

\* C15: mount schedules exactly one callback, with delay 500 ms and retry
\* count 0, when some query of the editor is active at that moment, and
\* no callback otherwise; mount issues no request.
C15_MountSchedulesOnce ==
  last.op = "mount" =>
     /\ requests = {} /\ last.issued = {}
     /\ timeouts = last.scheduled
     /\ IF SessionActive(queries, now)
          THEN /\ Cardinality(timeouts) = 1
               /\ \A t \in timeouts :
                     t.delay = 500 /\ t.retry_count = 0 /\ timer = t.id
          ELSE timeouts = {} /\ timer = NoTimer
\* Mounted over an active query of the editor.
C15_Witness ==
  /\ last.op = "mount"
  /\ SessionActive(queries, now)
  /\ timeouts # {}

\* C16 (the poller never changes a query record itself): mount, a timer
\* firing, unmount and the passing of time leave the queries as they are;
\* a settlement changes them only by the store merging the body passed to
\* refreshQueries; and the only store actions the poller dispatches are
\* refreshQueries and setUserOffline.
C16_QueriesOnlyByRefresh ==
  [][/\ last'.op \in {"mount", "fire", "finally", "unmount", "tick"}
          => queries' = queries
     /\ (last'.op = "settle" /\ queries' # queries)
          => /\ Len(RefreshCalls(last'.dispatched)) = 1
             /\ queries' = MergeQueries(queries,
                                        RefreshCalls(last'.dispatched)[1].arg)
     /\ \A k \in 1..Len(last'.dispatched) :
          last'.dispatched[k].type \in {"refreshQueries", "setUserOffline"}
    ]_vars
\* A callback has fired over queries of the editor that are all finished,
\* and they are still there.
C16_Witness ==
  /\ phase = "mounted"
  /\ last.op = "fire"
  /\ last.issued = {}
  /\ \E i \in DOMAIN queries :
        queries[i].sqlEditorId = queryEditorId /\ queries[i].state = "success"

C18_RecheckAtFire ==
  (last.op = "fire" /\ ~SessionActive(queries, now))
    => /\ last.issued = {} /\ requests = {}
       /\ timer = NoTimer /\ timeouts = {}
\* The editor's query finished after the callback was scheduled: it has
\* fired without a request.
C18_Witness ==
  /\ phase = "mounted"
  /\ last.op = "fire"
  /\ seen.active
  /\ \E i \in DOMAIN queries :
        queries[i].sqlEditorId = queryEditorId /\ queries[i].state = "success"
  /\ ~SessionActive(queries, now)
  /\ timer = NoTimer

\* C19, as claimed: a callback is scheduled at mount, on a query-set
\* change or after a settlement only when none is pending and some query
\* of the editor is active; the handlers of a settlement that find no
\* active query schedule nothing and leave the poller idle.
C19_ScheduledOnlyWhenActive ==
  /\ (last.op \in {"mount", "update", "finally"} /\ last.scheduled # {})
       => (SessionActive(queries, now) /\ timeouts = last.scheduled)
  /\ (last.op = "finally" /\ ~SessionActive(queries, now))
       => (timeouts = {} /\ timer = NoTimer)
\* C19, amended: at mount and on a query-set change a callback is
\* scheduled only when none is pending and some query of the editor is
\* active; the finally-handler of every settlement schedules exactly one
\* callback, whether or not a query is active; and no other step
\* schedules one.
C19_ScheduledOnlyWhenActiveOrSettled ==
  /\ (last.op \in {"mount", "update"} /\ last.scheduled # {})
       => (SessionActive(queries, now) /\ timeouts = last.scheduled)
  /\ last.op \notin {"mount", "update", "finally"} => last.scheduled = {}
  /\ last.op = "finally"
       => /\ Cardinality(last.scheduled) = 1
          /\ timeouts = last.scheduled
          /\ \E t \in timeouts : timer = t.id
\* A settlement that left no active query has scheduled a callback.
C19_Witness ==
  /\ phase = "mounted"
  /\ last.op = "finally"
  /\ ~SessionActive(queries, now)
  /\ last.scheduled # {}

\* C20: refreshQueries is called only for a non-empty success: not when
\* the request resolves with {}, fails or times out, nor in any step that
\* is not a settlement.
C20_RefreshOnlyOnNonEmptySuccess ==
  (\/ last.op # "settle"
   \/ last.outcome \in Failures
   \/ DOMAIN last.body = {})
    => Len(RefreshCalls(last.dispatched)) = 0
\* A request has resolved with {} after a failure: setUserOffline is
\* dispatched, refreshQueries is not.
C20_Witness ==
  /\ phase = "mounted"
  /\ last.op = "settle"
  /\ last.outcome = "success"
  /\ DOMAIN last.body = {}
  /\ Len(last.dispatched) >= 1

\* The setUserOffline actions among the store actions a step dispatched.
OfflineCalls(ds) == SelectSeq(ds, LAMBDA d : d.type = "setUserOffline")

\* C21, as claimed: a step dispatches setUserOffline(v) only when it
\* changed the local offline flag to v, and at most once; a step that
\* leaves the flag as it was dispatches no setUserOffline.
C21_DispatchOncePerChange ==
  [][LET calls == OfflineCalls(last'.dispatched)
     IN /\ Len(calls) <= (IF offline' # offline THEN 1 ELSE 0)
        /\ \A k \in 1..Len(calls) : calls[k].arg = offline'
    ]_vars

\* C22: a callback that fires while a query of the editor is active
\* issues exactly one GET, for the changes since queriesLastUpdate - 5000
\* (queriesLastUpdate as the props hold it when the callback runs) and
\* with a timeout of 10000 ms; a callback that fires otherwise, and every
\* other step, issues none.
C22_GetTarget ==
  /\ \A r \in requests : r.timeout = 10000
  /\ last.op = "fire"
       => IF SessionActive(queries, now)
            THEN \E r \in last.issued :
                    /\ last.issued = {r}
                    /\ requests = {r}
                    /\ r.since = queriesLastUpdate - 5000
                    /\ r.timeout = 10000
            ELSE last.issued = {}
  /\ last.op # "fire" => last.issued = {}
\* The callback that followed a settlement has issued the GET for the
\* changes since 15001.
C22_Witness ==
  /\ phase = "mounted"
  /\ last.op = "fire"
  /\ queriesLastUpdate = 20001
  /\ \E r \in last.issued : r.since = 15001 /\ r.retry_count >= 1

\* The kinds of JSON value that are not an object.
NonObjectShapes == {"null", "number", "boolean", "string", "array"}

\* C23, as claimed: a request that resolves with a body that is not a
\* JSON object takes the failure path: its handlers do not call
\* refreshQueries, the offline flag of a mounted instance is true after
\* them, and its finally-handler is left to schedule the next callback
\* with the request's retry count plus one.
C23_MalformedIsFailure ==
  [][(last'.op = "settle" /\ last'.shape \in NonObjectShapes)
       => /\ phase' = "mounted" => offline'
          /\ Len(RefreshCalls(last'.dispatched)) = 0
          /\ \E r \in requests \ requests' :
                \E c \in reactions' \ reactions :
                   c.retry_count = r.retry_count
    ]_vars
\* C23, amended: a request that resolves with the body null takes the
\* failure path: its handlers do not call refreshQueries, the offline
\* flag of a mounted instance is true after them, and its finally-handler
\* schedules the next callback with the request's retry count plus one.
\* A body that is a number, a boolean, a string or an array is handled
\* as a success: the flag of a mounted instance is false after the
\* handlers, refreshQueries is called with the body exactly when it has
\* enumerable keys, and the finally-handler is left to run with the
\* request's retry count.
C23_NullBodyIsFailure ==
  [][/\ (last'.op = "settle" /\ last'.shape = "null")
          => /\ last'.outcome = "malformed"
             /\ phase' = "mounted" => offline'
             /\ Len(RefreshCalls(last'.dispatched)) = 0
             /\ \E r \in requests \ requests' :
                   \E c \in reactions' \ reactions :
                      c.retry_count = r.retry_count
     /\ (last'.op = "finally" /\ last'.outcome = "malformed")
          => /\ last'.dispatched = <<>>
             /\ offline' = offline
             /\ \E c \in reactions \ reactions' :
                   \E t \in timeouts' :
                      /\ timeouts' \ timeouts = {t}
                      /\ t.retry_count = c.retry_count + 1
                      /\ timer' = t.id
     /\ (last'.op = "settle" /\ last'.shape \in NonObjectShapes \ {"null"})
          => /\ last'.outcome = "success"
             /\ phase' = "mounted" => ~offline'
             /\ Len(RefreshCalls(last'.dispatched))
                  = (IF DOMAIN last'.body = {} THEN 0 ELSE 1)
             /\ \A k \in 1..Len(RefreshCalls(last'.dispatched)) :
                   RefreshCalls(last'.dispatched)[k].arg = last'.body
             /\ \E r \in requests \ requests' :
                   \E c \in reactions' \ reactions :
                      c.retry_count = r.retry_count
    ]_vars
\* A null body has arrived while the flag was false: the flag is true
\* and the next callback is pending.
C23_Witness ==
  /\ phase = "mounted"
  /\ last.op = "finally"
  /\ last.outcome = "malformed"
  /\ last.failuresBefore = 0
  /\ offline
  /\ propsOffline
  /\ last.scheduled # {}

\* C24: the retry count of every pending callback, and of the request a
\* callback issued, is the number of requests settled since mount or a
\* query-set change last started the timer: 0 for the callback they
\* schedule, one more after each settlement, whatever its outcome.
C24_RetryCountsSettlements ==
  /\ \A t \in timeouts : t.retry_count = seen.settled
  /\ \A r \in requests : r.retry_count = seen.settled
  /\ \A c \in reactions : c.retry_count + 1 = seen.settled
  /\ (last.op \in {"mount", "update"} /\ last.scheduled # {})
       => seen.settled = 0
\* A success after a failure: the pending callback carries 2.
C24_Witness ==
  /\ last.op = "finally"
  /\ last.outcome = "success"
  /\ last.failuresBefore >= 1
  /\ seen.settled = 2
  /\ \E t \in timeouts : t.retry_count = 2

\* C25 (reactivation): a query-set change that reaches a mounted instance
\* without pending callback and without outstanding request, and leaves
\* a query of the editor active, schedules one callback with retry count
\* 0; and once a query-set change has scheduled a callback, the callback
\* fires, issuing a GET if a query is still active then, unless the
\* component is unmounted first.
C25_Reactivation ==
  /\ [][(phase = "mounted" /\ timeouts = {} /\ requests = {}
            /\ reactions = {}
            /\ last'.op = "update" /\ SessionActive(queries', now'))
          => \E t \in timeouts' :
                /\ timeouts' = {t}
                /\ last'.scheduled = {t}
                /\ t.retry_count = 0
                /\ timer' = t.id]_vars
  /\ (phase = "mounted" /\ last.op = "update" /\ last.scheduled # {})
       ~> (\/ /\ last.op = "fire"
              /\ SessionActive(queries, now) => last.issued # {}
           \/ phase = "unmounted")
\* An instance that has polled before and gone idle is reactivated.
C25_Witness ==
  /\ phase = "mounted"
  /\ last.op = "update"
  /\ seen.get
  /\ \E t \in last.scheduled : t.retry_count = 0
  /\ SessionActive(queries, now)

\* C26: the finally-handler of a request that failed, by a network
\* error or by a timeout, schedules the next callback with the request's
\* retry count plus one; and the handlers of a failure change nothing of
\* the poller but the offline flag, the retry count and the timer
\* handle: queries, queriesLastUpdate and the lifecycle phase stay, no
\* request is issued, refreshQueries is not called.
C26_FailureEffect ==
  [][(last'.op \in {"settle", "finally"} /\ last'.outcome \in Failures)
       => /\ last'.op = "settle"
               => \E r \in requests :
                     /\ requests' = requests \ {r}
                     /\ \E c \in reactions' \ reactions :
                           c.retry_count = r.retry_count
                     /\ timeouts' = timeouts /\ timer' = timer
          /\ last'.op = "finally"
               => \E c \in reactions :
                     /\ reactions' = reactions \ {c}
                     /\ \E t \in timeouts' :
                           /\ timeouts' \ timeouts = {t}
                           /\ t.retry_count = c.retry_count + 1
                     /\ requests' = requests /\ offline' = offline
          /\ queries' = queries
          /\ queriesLastUpdate' = queriesLastUpdate
          /\ phase' = phase
          /\ now' = now
          /\ last'.issued = {}
          /\ Len(RefreshCalls(last'.dispatched)) = 0
    ]_vars
\* A network error after a timeout: the pending callback carries 2.
C26_Witness ==
  /\ phase = "mounted"
  /\ last.op = "finally"
  /\ last.outcome = "error"
  /\ last.failuresBefore = 1
  /\ \E t \in last.scheduled : t.retry_count = 2

\* C27: every callback is armed with 500 ms, whatever its retry count
\* and whatever the outcomes before it.
C27_FixedDelay ==
  /\ \A t \in timeouts : t.delay = 500
  /\ \A t \in last.scheduled : t.delay = 500
\* The callback scheduled after the third settlement, two of them
\* failures, is armed with 500 ms.
C27_Witness ==
  /\ last.op = "finally"
  /\ seen.failures >= 2
  /\ \E t \in last.scheduled : t.retry_count = 3 /\ t.delay = 500

\* C28 (quiescence after unmount): once the component is unmounted, the
\* instance reaches a point from which no callback is pending and no
\* request is outstanding any more, so that no further GET is issued.
C28_QuiescentAfterUnmount ==
  /\ (phase = "unmounted")
       ~> (phase = "unmounted" /\ timeouts = {} /\ requests = {}
             /\ reactions = {})
  /\ [][(phase = "unmounted" /\ timeouts = {} /\ requests = {}
            /\ reactions = {})
          => (timeouts' = {} /\ requests' = {} /\ reactions' = {})]_vars
\* Unmounted with a request in flight and a running query in its props,
\* the instance has gone on polling and has now stopped.
C28_Witness ==
  /\ phase = "unmounted"
  /\ seen.unmountedWith = "request"
  /\ \E i \in DOMAIN queries :
        queries[i].sqlEditorId = queryEditorId /\ queries[i].state = "running"
  /\ seen.settled >= 2
  /\ last.op = "fire"
  /\ timeouts = {}
  /\ requests = {}
  /\ reactions = {}

\* C29 (going idle clears the offline state): a callback that fires in a
\* mounted instance and finds no query of the editor active issues no
\* request and leaves the local flag false; if the flag was true,
\* setUserOffline(false) is dispatched and the store's flag is false; if
\* it was false, nothing is dispatched.
C29_IdleClearsOffline ==
  [][(phase = "mounted" /\ last'.op = "fire" /\ ~SessionActive(queries, now))
       => LET calls == OfflineCalls(last'.dispatched)
          IN /\ ~offline'
             /\ last'.issued = {}
             /\ offline => /\ Len(calls) >= 1
                            /\ \A k \in 1..Len(calls) : calls[k].arg = FALSE
                            /\ ~propsOffline'
             /\ ~offline => last'.dispatched = <<>>
    ]_vars
\* The last request failed, the callback after it found nothing active:
\* the flag is false and setUserOffline(false) was dispatched.
C29_Witness ==
  /\ phase = "mounted"
  /\ last.op = "fire"
  /\ seen.failures >= 1
  /\ ~offline
  /\ ~propsOffline
  /\ Len(OfflineCalls(last.dispatched)) >= 1
  /\ timer = NoTimer

\* C30: a query-set change handled while a callback is pending or a
\* request is in flight (or settled, with its finally-handler still to
\* run) leaves this.timer, the pending callbacks with their retry
\* counts, the request and the finally-handler with their retry counts
\* and the local offline flag as they were.
C30_UpdateKeepsCycle ==
  [][(last'.op = "update"
        /\ (timeouts # {} \/ requests # {} \/ reactions # {}))
       => /\ timer' = timer
          /\ timeouts' = timeouts
          /\ requests' = requests
          /\ reactions' = reactions
          /\ offline' = offline
    ]_vars
\* A query-set change has been handled while the request of the second
\* cycle is in flight and the flag is true.
C30_Witness ==
  /\ phase = "mounted"
  /\ last.op = "update"
  /\ offline
  /\ SessionActive(queries, now)
  /\ \E r \in requests : r.retry_count >= 1 /\ timer = r.id

====
